---------------------------- MODULE Spec2Model ----------------------------
(***************************************************************************)
(* Live show orchestration engine of n8n-self-hosted (api/obs_controller): *)
(* the recirculating priority queue (queueing_loop.py), the show           *)
(* supervisor (show_runner.py), the supervised activities (obs_control.py, *)
(* obs_helper_func.py) and the control surface (routes.py).                *)
(*                                                                         *)
(* The specifications share the variables and the queue operators:         *)
(*   SpecQueue    - the QueueingLoop API called sequentially, one method   *)
(*                  per step (how the event loop runs it);                 *)
(*   SpecThreads  - QueueingLoop.add_new_video called from several         *)
(*                  threads, one step per lock/queue access;               *)
(*   SpecPeek     - get_next_video called from several threads;            *)
(*   Spec         - the supervisor, its activities and the control surface *)
(*                  as asyncio tasks, one step per run between two awaits; *)
(*   SpecDrivers  - the ad and overlay rotation loops, tick by tick;       *)
(*   SpecPlayback - play_videos with the scene and the waits it makes;     *)
(*   SpecCancel   - the supervisor with run_show's task cancelled;         *)
(*   SpecStop     - SpecPeek's threads with stop_show called meanwhile.    *)
(***************************************************************************)
EXTENDS Integers, Sequences, FiniteSets, TLC

(***************************************************************************)
(* Bounds of the model.                                                    *)
(***************************************************************************)
\* capacity of the PriorityQueue (QueueingLoop(max_size)); the code's default is 20
MaxSize == 3
\* named videos; Videos also holds the empty name
NumVideos == 1
\* enqueues allowed before the model stops inserting (caps self.counter)
MaxCounter == 5
\* start commands the control surface sends (run_show tasks ever created)
MaxRuns == 2
\* add-video and stop commands the control surface sends
MaxCommands == 1
\* runs that get to launch their four supervised tasks
MaxLaunches == 1
\* largest max_duration and longest video_list of a start command
MaxDuration == 2
MaxList == 1
\* overlay (QR code) items the scene may hold
NumOverlays == 1
\* advertisements get_ad_details may return, and the cap of rotate_ads's index
MaxAds == 2
MaxIndex == 3
\* overlay items rotate_qr_codes may find; how far left and right of the scene's
\* origin OBS may report their initial positionX; their largest width
NumItems == 2
MaxLeft == 2
MaxPos == 2
MaxWidth == 1
\* longest video or intro, in seconds
MaxVideoLen == 2

(***************************************************************************)
(* Program constants.                                                      *)
(***************************************************************************)
\* priority of add_new_video (fresh)
FRESH == 2
\* priority of add_video_back_to_loop (recirculated); get_next_video's cut-off
RECIRCULATED == 3

\* the empty string, the one video name that is falsy in Python
EmptyName == 0
Videos == 0..NumVideos
Priorities == {FRESH, RECIRCULATED}
Truthy(item) == item # EmptyName

VARIABLES
  \* QueueingLoop
  video_playlist,   \* the heap list of PriorityQueue: tuples <<priority, counter, item>>
  counter,          \* self.counter
  queue_open,       \* self.queue_open
  \* the last sequential call and what it returned (SpecQueue)
  lastOp, ret,
  streak,           \* see get_next_video_streak
  \* rotate_ads (SpecDrivers)
  ad_pc,            \* where the rotate_ads task is
  ad_details,       \* len(ad_details), -1 before get_ad_details returned
  index,            \* rotate_ads's index
  ad_ok,            \* how the last finished tick of rotate_ads went: "none", "ok", "failed"
  \* rotate_qr_codes and its rotate_qr_code sub-tasks (SpecDrivers)
  qr_pc,            \* where the rotate_qr_codes task is
  item_pc,          \* where the rotate_qr_code task of each overlay item is
  pos_x,            \* its pos_x
  item_ok,          \* how its last tick went: "none", "ok", "failed"
  max_item_pos,     \* int(max_item_pos): the initial position of the last item
  max_item_width,   \* int(max_item_width)
  \* play_videos (SpecPlayback)
  pb_pc,            \* where the play_videos task is
  pb_video,         \* the video its current turn took from the queue, 0 for the filler
  wait_left,        \* seconds left of the asyncio.sleep it is suspended in
  scene,            \* OBS: the current program scene
  main_video,       \* OBS: the video MainVideo was last restarted with, 0 for none
  \* threads inside add_new_video (SpecThreads)
  tpc,              \* where each thread is
  tret,             \* what its call returned
  lock,             \* self.lock: 0 when free, else the thread holding it
  held,             \* the entry a thread took from the queue and has not put back, else <<>>
  \* ShowRunner and the event loop (Spec)
  is_running,       \* self.is_running
  show_start_time,  \* self.show_start_time: 0 for None, else the reading of the clock
  now,              \* datetime.now() as a logical clock
  stream_active,    \* OBS: get_stream_status().output_active
  rpc,              \* where each run_show task is
  rarg,             \* its argument max_duration while the run needs it, else 0
  stopped,          \* a stop_show ran while the run was between its intro and its outro
  ads, qr, kid, play, mon,   \* where each supervised task (and overlay sub-task) is
  timer,            \* monitor_stream_status's timer
  creq, kreq,       \* tasks (overlay sub-tasks) whose cancellation is requested, not yet delivered
  late,             \* a task of the run issued a broadcast command outside its Running phase
  pending,          \* add_new_video_in_show / stop_show tasks created and not yet run
  cmdsLeft,         \* add and stop commands the control surface may still send
  launches          \* runs that have launched their supervised tasks

qvars == <<video_playlist, counter, queue_open>>
adsvars == <<ad_pc, ad_details, index, ad_ok>>
qrvars == <<qr_pc, item_pc, pos_x, item_ok, max_item_pos, max_item_width>>
pbvars == <<pb_pc, pb_video, wait_left, scene, main_video>>
drvvars == <<adsvars, qrvars, pbvars>>
obsvars == <<lastOp, ret, streak, drvvars>>
thvars == <<tpc, tret, lock, held>>
showvars == <<is_running, show_start_time, now>>
taskvars == <<ads, qr, kid, play, mon, timer, creq, kreq, late>>
ctlvars == <<pending, cmdsLeft, launches>>
supvars == <<showvars, stream_active, rpc, rarg, stopped, taskvars, ctlvars>>
vars == <<qvars, obsvars, thvars, supvars>>

(***************************************************************************)
(* Return values.  Python's None, True, False, an item, peek's pair.       *)
(***************************************************************************)
RetNone == [kind |-> "None", val |-> 0, prio |-> 0]
RetBool(b) == [kind |-> IF b THEN "True" ELSE "False", val |-> 0, prio |-> 0]
RetItem(item) == [kind |-> "item", val |-> item, prio |-> 0]
RetPair(priority, item) == [kind |-> "pair", val |-> item, prio |-> priority]
RetPairNone == [kind |-> "pairNone", val |-> 0, prio |-> 0]
RetRaised == [kind |-> "raised", val |-> 0, prio |-> 0]

(***************************************************************************)
(* queue.PriorityQueue over heapq, positions 1-based.                      *)
(***************************************************************************)
\* Python's < on the tuples (priority, counter, item)
TupleLess(a, b) ==
  \/ a[1] < b[1]
  \/ a[1] = b[1] /\ a[2] < b[2]
  \/ a[1] = b[1] /\ a[2] = b[2] /\ a[3] < b[3]

RECURSIVE SiftDown(_, _, _, _)
\* heapq._siftdown: move newitem from pos towards startpos while smaller than its parent
SiftDown(heap, startpos, pos, newitem) ==
  IF pos > startpos /\ TupleLess(newitem, heap[pos \div 2])
  THEN SiftDown([heap EXCEPT ![pos] = heap[pos \div 2]], startpos, pos \div 2, newitem)
  ELSE [heap EXCEPT ![pos] = newitem]

RECURSIVE SiftUp(_, _, _, _)
\* heapq._siftup: bubble the smaller child up to a leaf, then sift newitem down
SiftUp(heap, startpos, pos, newitem) ==
  LET childpos == 2 * pos
      rightpos == childpos + 1
  IN IF childpos <= Len(heap)
     THEN LET c == IF rightpos <= Len(heap) /\ ~TupleLess(heap[childpos], heap[rightpos])
                   THEN rightpos ELSE childpos
          IN SiftUp([heap EXCEPT ![pos] = heap[c]], startpos, c, newitem)
     ELSE SiftDown([heap EXCEPT ![pos] = newitem], startpos, pos, newitem)

HeapPush(heap, entry) == SiftDown(Append(heap, entry), 1, Len(heap) + 1, entry)

\* heapq.heappop on a non-empty heap: [entry, heap]
HeapPop(heap) ==
  LET lastelt == heap[Len(heap)]
      rest == SubSeq(heap, 1, Len(heap) - 1)
  IN IF rest = <<>>
     THEN [entry |-> lastelt, heap |-> rest]
     ELSE [entry |-> rest[1], heap |-> SiftUp([rest EXCEPT ![1] = lastelt], 1, 1, lastelt)]

\* PriorityQueue.put_nowait: raises Full when 0 < maxsize <= qsize
PutNowaitNoLimit(heap, entry) == [full |-> FALSE, heap |-> HeapPush(heap, entry)]
PutNowait(heap, entry) ==
  IF Len(heap) >= MaxSize
  THEN [full |-> TRUE, heap |-> heap]
  ELSE [full |-> FALSE, heap |-> HeapPush(heap, entry)]

\* the queue as the methods see it
QueueState == [heap |-> video_playlist, counter |-> counter, open |-> queue_open]
Result(q, r) == [q |-> q, ret |-> r]

(***************************************************************************)
(* QueueingLoop.  Every method maps a queue state to the state after the   *)
(* call and the value returned.                                            *)
(***************************************************************************)
\* the decorator dropped: the method runs whether or not the queue is open
require_queue_open_missing(q, call) == call
\* @require_queue_open: skip the call (return None) when the queue is closed
require_queue_open(q, call) == IF ~q.open THEN Result(q, RetNone) ELSE call

enqueue_body(q, item, priority) ==
  LET put == PutNowait(q.heap, <<priority, q.counter, item>>)
  IN IF put.full
     THEN Result(q, RetBool(FALSE))
     ELSE Result([q EXCEPT !.heap = put.heap, !.counter = q.counter + 1], RetBool(TRUE))
enqueue(q, item, priority) == require_queue_open(q, enqueue_body(q, item, priority))

\* get_nowait taking the newest entry instead of the smallest
dequeue_body_lifo(q) ==
  IF q.heap # <<>>
  THEN Result([q EXCEPT !.heap = SubSeq(q.heap, 1, Len(q.heap) - 1)],
              RetItem(q.heap[Len(q.heap)][3]))
  ELSE Result(q, RetNone)
dequeue_body(q) ==
  IF q.heap # <<>>
  THEN LET pop == HeapPop(q.heap)
       IN Result([q EXCEPT !.heap = pop.heap], RetItem(pop.entry[3]))
  ELSE Result(q, RetNone)
dequeue(q) == require_queue_open(q, dequeue_body(q))

\* peek without the put_nowait that restores the entry
peek_body_no_put(q) ==
  IF q.heap # <<>>
  THEN LET pop == HeapPop(q.heap)
       IN Result([q EXCEPT !.heap = pop.heap], RetPair(pop.entry[1], pop.entry[3]))
  ELSE Result(q, RetPairNone)
peek_body(q) ==
  IF q.heap # <<>>
  THEN LET pop == HeapPop(q.heap)
       IN Result([q EXCEPT !.heap = PutNowait(pop.heap, pop.entry).heap],
                 RetPair(pop.entry[1], pop.entry[3]))
  ELSE Result(q, RetPairNone)
peek(q) == require_queue_open(q, peek_body(q))

is_empty(q) == require_queue_open(q, Result(q, RetBool(q.heap = <<>>)))

add_new_video(q, video_file) == require_queue_open(q, enqueue(q, video_file, FRESH))

add_video_back_to_loop(q, video_file) ==
  require_queue_open(q, enqueue(q, video_file, RECIRCULATED))

\* get_next_video with the cut-off one too high ("priority > 3")
get_next_video_body_cutoff(q) ==
  LET pk == peek(q)
  IN IF pk.ret.kind = "None"
     THEN Result(pk.q, RetRaised)
     ELSE IF pk.ret.kind = "pairNone" \/ pk.ret.prio > RECIRCULATED
     THEN Result(pk.q, RetNone)
     ELSE LET dq == dequeue(pk.q)
          IN IF dq.ret.kind = "item" /\ Truthy(dq.ret.val)
             THEN Result(add_video_back_to_loop(dq.q, dq.ret.val).q, dq.ret)
             ELSE Result(dq.q, dq.ret)
get_next_video_body(q) ==
  LET pk == peek(q)
  IN IF pk.ret.kind = "None"
     THEN Result(pk.q, RetRaised)      \* "priority, _ = None" raises TypeError
     ELSE IF pk.ret.kind = "pairNone" \/ pk.ret.prio >= RECIRCULATED
     THEN Result(pk.q, RetNone)
     ELSE LET dq == dequeue(pk.q)
          IN IF dq.ret.kind = "item" /\ Truthy(dq.ret.val)
             THEN Result(add_video_back_to_loop(dq.q, dq.ret.val).q, dq.ret)
             ELSE Result(dq.q, dq.ret)
get_next_video(q) == require_queue_open(q, get_next_video_body(q))

clear_all(q) == require_queue_open(q, Result([q EXCEPT !.heap = <<>>], RetNone))


(***************************************************************************)
(* The parts of the state a specification does not use stay as built.      *)
(***************************************************************************)
Callers == 1..(MaxSize + 1)
Runs == 1..MaxRuns
Overlays == 1..NumOverlays
TaskNames == {"ads", "qr", "play", "mon"}

ThreadsUnused ==
  /\ tpc = [c \in Callers |-> "idle"]
  /\ tret = [c \in Callers |-> "none"]
  /\ lock = 0
  /\ held = [c \in Callers |-> <<>>]

Items == 1..NumItems

DriversUnused ==
  /\ ad_pc = "absent"
  /\ ad_details = -1
  /\ index = 0
  /\ ad_ok = "none"
  /\ qr_pc = "absent"
  /\ item_pc = [i \in Items |-> "absent"]
  /\ pos_x = [i \in Items |-> 0]
  /\ item_ok = [i \in Items |-> "none"]
  /\ max_item_pos = 0
  /\ max_item_width = 0
  /\ pb_pc = "absent"
  /\ pb_video = 0
  /\ wait_left = 0
  /\ scene = "IntroScene"
  /\ main_video = 0

ObserverUnused ==
  /\ lastOp = [name |-> "init", item |-> 0, priority |-> 0]
  /\ ret = RetNone
  /\ streak = <<0, 0>>
  /\ DriversUnused

SupervisorUnused ==
  /\ is_running = FALSE
  /\ show_start_time = 0
  /\ now = 0
  /\ stream_active = FALSE
  /\ rpc = [r \in Runs |-> "absent"]
  /\ rarg = [r \in Runs |-> 0]
  /\ stopped = [r \in Runs |-> FALSE]
  /\ ads = [r \in Runs |-> "absent"]
  /\ qr = [r \in Runs |-> "absent"]
  /\ kid = [r \in Runs |-> [i \in Overlays |-> "absent"]]
  /\ play = [r \in Runs |-> "absent"]
  /\ mon = [r \in Runs |-> "absent"]
  /\ timer = [r \in Runs |-> 0]
  /\ creq = [r \in Runs |-> {}]
  /\ kreq = [r \in Runs |-> {}]
  /\ late = [r \in Runs |-> FALSE]
  /\ pending = <<>>
  /\ cmdsLeft = MaxCommands
  /\ launches = 0

(***************************************************************************)
(* SpecQueue: the API called one method at a time.                         *)
(***************************************************************************)
Entries(heap) == {heap[i] : i \in 1..Len(heap)}

\* consecutive get_next_video calls made since the queue was open and held exactly
\* one item, at fresh priority: <<that item, number of calls>>, <<0, 0>> when none
NoStreak == <<0, 0>>
StreakCap == 3
get_next_video_streak ==
  IF streak[2] > 0
  THEN <<streak[1], IF streak[2] < StreakCap THEN streak[2] + 1 ELSE streak[2]>>
  ELSE IF queue_open /\ Len(video_playlist) = 1 /\ video_playlist[1][1] = FRESH
  THEN <<video_playlist[1][3], 1>>
  ELSE NoStreak

Apply(res, op, st) ==
  /\ video_playlist' = res.q.heap
  /\ counter' = res.q.counter
  /\ queue_open' = res.q.open
  /\ ret' = res.ret
  /\ lastOp' = op
  /\ streak' = st
  /\ UNCHANGED <<drvvars, thvars, supvars>>

Op(name, item, priority) == [name |-> name, item |-> item, priority |-> priority]

InitQueue ==
  /\ video_playlist = <<>>
  /\ counter = 0
  /\ queue_open = FALSE
  /\ lastOp = Op("init", 0, 0)
  /\ ret = RetNone
  /\ streak = NoStreak
  /\ DriversUnused
  /\ ThreadsUnused
  /\ SupervisorUnused

\* initialize_video_queue's "self.video_queue.queue_open = True"
OpenQueue ==
  Apply(Result([QueueState EXCEPT !.open = TRUE], RetNone), Op("open", 0, 0), NoStreak)

\* stop_show's "self.video_queue.queue_open = False"
CloseQueue ==
  Apply(Result([QueueState EXCEPT !.open = FALSE], RetNone), Op("close", 0, 0), NoStreak)

Enqueue ==
  \E item \in Videos, priority \in Priorities :
    /\ counter < MaxCounter
    /\ Apply(enqueue(QueueState, item, priority), Op("enqueue", item, priority), NoStreak)

AddNewVideo ==
  \E item \in Videos :
    /\ counter < MaxCounter
    /\ Apply(add_new_video(QueueState, item), Op("add_new_video", item, FRESH), NoStreak)

AddVideoBackToLoop ==
  \E item \in Videos :
    /\ counter < MaxCounter
    /\ Apply(add_video_back_to_loop(QueueState, item),
             Op("add_video_back_to_loop", item, RECIRCULATED), NoStreak)

Dequeue == Apply(dequeue(QueueState), Op("dequeue", 0, 0), NoStreak)

Peek == Apply(peek(QueueState), Op("peek", 0, 0), NoStreak)

IsEmpty == Apply(is_empty(QueueState), Op("is_empty", 0, 0), NoStreak)

GetNextVideo ==
  /\ counter < MaxCounter
  /\ Apply(get_next_video(QueueState), Op("get_next_video", 0, 0), get_next_video_streak)

ClearAll == Apply(clear_all(QueueState), Op("clear_all", 0, 0), NoStreak)

NextQueue ==
  \/ OpenQueue
  \/ CloseQueue
  \/ Enqueue
  \/ AddNewVideo
  \/ AddVideoBackToLoop
  \/ Dequeue
  \/ Peek
  \/ IsEmpty
  \/ GetNextVideo
  \/ ClearAll

SpecQueue == InitQueue /\ [][NextQueue]_vars


(***************************************************************************)
(* Claims about the queue API (SpecQueue).                                 *)
(***************************************************************************)
\* the entry with the smallest (priority, sequence) key
MinKey(S) == CHOOSE e \in S : \A f \in S : e[1] < f[1] \/ (e[1] = f[1] /\ e[2] <= f[2])

\* C3 (as claimed): get_next_video applied repeatedly to an open queue that holds
\* exactly one item A at fresh priority returns A on every call, and the queue
\* holds exactly one copy of A after each call.
C3_RecirculateForever ==
  (streak[2] > 0 /\ Truthy(streak[1])) =>
     /\ ret = RetItem(streak[1])
     /\ Len(video_playlist) = 1
     /\ video_playlist[1][3] = streak[1]

GatedOps ==
  {"enqueue", "add_new_video", "add_video_back_to_loop", "dequeue", "peek",
   "get_next_video"}

\* C5: a call of enqueue (fresh or recirculated), dequeue, get_next_video or peek
\* made while the queue is closed returns None and leaves the items, their keys,
\* the sequence counter and the open flag as they were.
C5_ClosedQueueIsInert ==
  [][(~queue_open /\ lastOp'.name \in GatedOps) =>
        /\ ret' = RetNone
        /\ video_playlist' = video_playlist
        /\ counter' = counter
        /\ queue_open' = queue_open]_vars

\* C5 witness: get_next_video was called on a closed queue that holds items
C5_Witness ==
  /\ ~queue_open
  /\ Len(video_playlist) >= 2
  /\ lastOp.name = "get_next_video"
  /\ ret = RetNone

\* C6: dequeue on an open, non-empty queue returns the item whose (priority,
\* sequence) key is the smallest among the queued entries and removes exactly that
\* entry; an item returned by get_next_video is the item of the smallest key too.
C6_TakeNextIsMinKey ==
  [][(queue_open /\ video_playlist # <<>>) =>
        LET m == MinKey(Entries(video_playlist))
        IN /\ lastOp'.name = "dequeue" =>
                /\ ret' = RetItem(m[3])
                /\ Entries(video_playlist') = Entries(video_playlist) \ {m}
                /\ Len(video_playlist') = Len(video_playlist) - 1
           /\ (lastOp'.name = "get_next_video" /\ ret'.kind = "item") =>
                ret'.val = m[3]]_vars

\* C6 witness: a dequeue returned an item and left behind a recirculated entry that
\* was inserted before every other entry (sequence number 0)
C6_Witness ==
  /\ lastOp.name = "dequeue"
  /\ ret.kind = "item"
  /\ Len(video_playlist) = 2
  /\ \E e \in Entries(video_playlist) : e[1] = RECIRCULATED /\ e[2] = 0
  /\ \E e \in Entries(video_playlist) : e[1] = FRESH


(***************************************************************************)
(* SpecThreads: add_new_video("x") called once by each of MaxSize + 1      *)
(* threads, one step per read of queue_open, per lock operation and per    *)
(* queue access; another thread may close and reopen the queue.            *)
(***************************************************************************)
\* the video every caller adds
X == NumVideos

InitThreads ==
  /\ video_playlist = <<>>
  /\ counter = 0
  /\ queue_open = TRUE
  /\ ThreadsUnused
  /\ ObserverUnused
  /\ SupervisorUnused

ThreadStep(c, pc, r) ==
  /\ tpc' = [tpc EXCEPT ![c] = pc]
  /\ tret' = [tret EXCEPT ![c] = r]
  /\ UNCHANGED held

\* the caller enters add_new_video's wrapper
ThreadCall(c) ==
  /\ tpc[c] = "idle"
  /\ ThreadStep(c, "add_new_video", "none")
  /\ UNCHANGED <<qvars, lock, obsvars, supvars>>

\* require_queue_open around add_new_video
ThreadAddNewVideo(c) ==
  /\ tpc[c] = "add_new_video"
  /\ IF queue_open THEN ThreadStep(c, "enqueue", "none") ELSE ThreadStep(c, "done", "None")
  /\ UNCHANGED <<qvars, lock, obsvars, supvars>>

\* require_queue_open around enqueue
ThreadEnqueue(c) ==
  /\ tpc[c] = "enqueue"
  /\ IF queue_open THEN ThreadStep(c, "lock", "none") ELSE ThreadStep(c, "done", "None")
  /\ UNCHANGED <<qvars, lock, obsvars, supvars>>

\* enqueue without the lock: the thread goes on whoever holds it
ThreadAcquireNoLock(c) ==
  /\ tpc[c] = "lock"
  /\ lock' = c
  /\ ThreadStep(c, "put_nowait", "none")
  /\ UNCHANGED <<qvars, obsvars, supvars>>

\* with self.lock:
ThreadAcquire(c) ==
  /\ tpc[c] = "lock"
  /\ lock = 0
  /\ lock' = c
  /\ ThreadStep(c, "put_nowait", "none")
  /\ UNCHANGED <<qvars, obsvars, supvars>>

\* put_nowait((priority, self.counter, item)); Full leaves the with block and is
\* caught: return False
ThreadPut(c) ==
  /\ tpc[c] = "put_nowait"
  /\ LET put == PutNowait(video_playlist, <<FRESH, counter, X>>)
     IN IF put.full
        THEN /\ lock' = 0
             /\ ThreadStep(c, "done", "False")
             /\ UNCHANGED video_playlist
        ELSE /\ video_playlist' = put.heap
             /\ ThreadStep(c, "counter", "none")
             /\ UNCHANGED lock
  /\ UNCHANGED <<counter, queue_open, obsvars, supvars>>

\* self.counter += 1
ThreadCount(c) ==
  /\ tpc[c] = "counter"
  /\ counter' = counter + 1
  /\ ThreadStep(c, "unlock", "none")
  /\ UNCHANGED <<video_playlist, queue_open, lock, obsvars, supvars>>

\* the with block ends; return True
ThreadRelease(c) ==
  /\ tpc[c] = "unlock"
  /\ lock' = 0
  /\ ThreadStep(c, "done", "True")
  /\ UNCHANGED <<qvars, obsvars, supvars>>

\* stop_show's "queue_open = False" and initialize_video_queue's "queue_open = True"
ThreadToggle ==
  /\ queue_open' = ~queue_open
  /\ UNCHANGED <<video_playlist, counter, thvars, obsvars, supvars>>

NextThreads ==
  \/ \E c \in Callers : ThreadCall(c)
  \/ \E c \in Callers : ThreadAddNewVideo(c)
  \/ \E c \in Callers : ThreadEnqueue(c)
  \/ \E c \in Callers : ThreadAcquire(c)
  \/ \E c \in Callers : ThreadPut(c)
  \/ \E c \in Callers : ThreadCount(c)
  \/ \E c \in Callers : ThreadRelease(c)
  \/ ThreadToggle

SpecThreads == InitThreads /\ [][NextThreads]_vars

Accepted == {c \in Callers : tret[c] = "True"}

\* C10: with capacity MaxSize and any interleaving of concurrent add_new_video
\* calls, the queue never holds more than MaxSize items, at most MaxSize calls
\* return True, every finished call returned True, False or None (none raised),
\* and the step in which a call fails leaves items and counter unchanged.
C10_CapacityBoundsAccepted ==
  /\ [](/\ Len(video_playlist) <= MaxSize
        /\ Cardinality(Accepted) <= MaxSize
        /\ \A c \in Callers :
             tpc[c] = "done" => tret[c] \in {"True", "False", "None"})
  /\ [][\A c \in Callers :
          (tpc[c] # "done" /\ tpc'[c] = "done" /\ tret'[c] # "True") =>
             (video_playlist' = video_playlist /\ counter' = counter)]_vars

\* C10 witness: the queue is full, MaxSize calls were accepted and one was refused
C10_Witness ==
  /\ Len(video_playlist) = MaxSize
  /\ Cardinality(Accepted) = MaxSize
  /\ \E c \in Callers : tpc[c] = "done" /\ tret[c] = "False"


(***************************************************************************)
(* Spec: the supervisor.  run_show, the supervised activities, the overlay *)
(* sub-tasks and the control surface's add and stop coroutines are asyncio *)
(* tasks of one event loop: a step is what a task does between two awaits  *)
(* that suspend it.  A call to OBS, to the show API or to moviepy returns  *)
(* or raises; change_scene suspends for a second when OBS reports the      *)
(* requested scene as the current one.  Which ad is shown and where an     *)
(* overlay stands are left out.  A task is "absent" before it is created   *)
(* and again once its result has been dropped.                             *)
(***************************************************************************)
Terminal == {"returned", "broke", "raised", "cancelled"}
Live(pc) == pc \notin Terminal /\ pc # "absent"
Collected(pc) == IF pc \in Terminal THEN "absent" ELSE pc

Durations == 1..MaxDuration
NamedVideos == 1..NumVideos
RECURSIVE ListsUpTo(_)
ListsUpTo(n) ==
  IF n = 0 THEN {<<>>}
  ELSE ListsUpTo(n - 1)
         \cup {Append(l, v) : l \in {x \in ListsUpTo(n - 1) : Len(x) = n - 1}, v \in NamedVideos}
\* what a start command carries: max_duration, and a video_list or none (JSON null)
StartArgs ==
  {[max_duration |-> d, has_list |-> TRUE, video_list |-> l] :
      d \in Durations, l \in ListsUpTo(MaxList)}
    \cup {[max_duration |-> d, has_list |-> FALSE, video_list |-> <<>>] : d \in Durations}

Init ==
  /\ video_playlist = <<>>
  /\ counter = 0
  /\ queue_open = FALSE
  /\ ObserverUnused
  /\ ThreadsUnused
  /\ SupervisorUnused

SetQueue(q) ==
  /\ video_playlist' = q.heap
  /\ counter' = q.counter
  /\ queue_open' = q.open

ActivePhases == {"intro", "main", "gather", "outro"}

(* ------------------------------ control surface ------------------------ *)
\* start_obs_stream: asyncio.create_task(sr.run_show(show_id, max_duration, video_list))
StartCommand ==
  \E r \in Runs :
    /\ rpc[r] = "absent"
    /\ \A r2 \in Runs : r2 < r => rpc[r2] # "absent"
    /\ rpc' = [rpc EXCEPT ![r] = "created"]
    /\ UNCHANGED <<qvars, obsvars, thvars, showvars, stream_active, rarg, stopped, taskvars,
                   ctlvars>>

\* add_new_video_in_obs: refused unless sr.is_running and video_name is truthy
AddCommand ==
  \E v \in Videos :
    /\ cmdsLeft > 0
    /\ is_running
    /\ Truthy(v)
    /\ pending' = Append(pending, [op |-> "add", video |-> v])
    /\ cmdsLeft' = cmdsLeft - 1
    /\ UNCHANGED <<qvars, obsvars, thvars, showvars, stream_active, rpc, rarg, stopped, taskvars,
                   launches>>

\* stop_obs_stream: asyncio.create_task(sr.stop_show())
StopCommand ==
  /\ cmdsLeft > 0
  /\ pending' = Append(pending, [op |-> "stop", video |-> 0])
  /\ cmdsLeft' = cmdsLeft - 1
  /\ UNCHANGED <<qvars, obsvars, thvars, showvars, stream_active, rpc, rarg, stopped, taskvars,
                 launches>>

\* ShowRunner.add_new_video_in_show
add_new_video_in_show(q, video_file) == add_new_video(q, video_file).q

\* ShowRunner.stop_show: queue_open = False, then clear_all()
stop_show(q) == clear_all([q EXCEPT !.open = FALSE]).q

\* a stop_show that also marks the Show as not running
ControlTaskResetsShow ==
  /\ pending # <<>>
  /\ LET t == Head(pending)
     IN IF t.op = "add"
        THEN /\ SetQueue(add_new_video_in_show(QueueState, t.video))
             /\ UNCHANGED <<stopped, is_running>>
        ELSE /\ SetQueue(stop_show(QueueState))
             /\ is_running' = FALSE
             /\ stopped' = [r \in Runs |-> stopped[r] \/ rpc[r] \in ActivePhases]
  /\ pending' = Tail(pending)
  /\ UNCHANGED <<obsvars, thvars, show_start_time, now, stream_active, rpc, rarg, taskvars,
                 cmdsLeft, launches>>

\* the oldest pending control coroutine runs; a stop_show is noted for the runs
\* that are between their intro and their outro
ControlTask ==
  /\ pending # <<>>
  /\ LET t == Head(pending)
     IN IF t.op = "add"
        THEN /\ SetQueue(add_new_video_in_show(QueueState, t.video))
             /\ UNCHANGED stopped
        ELSE /\ SetQueue(stop_show(QueueState))
             /\ stopped' = [r \in Runs |-> stopped[r] \/ rpc[r] \in ActivePhases]
  /\ pending' = Tail(pending)
  /\ UNCHANGED <<obsvars, thvars, showvars, stream_active, rpc, rarg, taskvars, cmdsLeft,
                 launches>>

\* OBS stops streaming on its own (operator, network)
StreamLost ==
  /\ stream_active
  /\ stream_active' = FALSE
  /\ UNCHANGED <<qvars, obsvars, thvars, showvars, rpc, rarg, stopped, taskvars, ctlvars>>

(* ------------------------------ run_show -------------------------------- *)
RECURSIVE SeedQueue(_, _)
SeedQueue(q, list) ==
  IF list = <<>> THEN q ELSE SeedQueue(add_new_video(q, Head(list)).q, Tail(list))
\* ShowRunner.initialize_video_queue
initialize_video_queue(q, video_list) == SeedQueue([q EXCEPT !.open = TRUE], video_list)

\* run_show's guard: "if self.is_running: video_list = []", then "if video_list is
\* None: return".  go: the run goes on; list: the list it goes on with
EffectiveList(running, a) ==
  LET has_list == running \/ a.has_list
      list == IF running THEN <<>> ELSE a.video_list
  IN [go |-> has_list, list |-> list]

\* run_show returns or raises: its arguments and the playback task's result are dropped
RunOver(r, how) ==
  /\ rpc' = [rpc EXCEPT ![r] = how]
  /\ rarg' = [rarg EXCEPT ![r] = 0]
  /\ stopped' = [stopped EXCEPT ![r] = FALSE]
  /\ play' = [play EXCEPT ![r] = Collected(@)]

\* run_show suspends at pc and still needs max_duration d
RunGoesOn(r, pc, d) ==
  /\ rpc' = [rpc EXCEPT ![r] = pc]
  /\ rarg' = [rarg EXCEPT ![r] = d]
  /\ UNCHANGED <<play, stopped>>

\* run_show's finally block, entered with the stream in state s and the Show record
\* (running, started): stop_stream() may raise before or after it stopped the
\* stream; the duration is computed from show_start_time (None raises); then the
\* Show is reset.  how: "ended" after the outro, "failed" when an exception is on
\* its way out; "crashed" when the block itself raised.
Finally(r, how, s, running, started) ==
  \E f \in {"reset", "raise_before_stop", "raise_after_stop"} :
    /\ stream_active' = (IF f = "raise_before_stop" THEN s ELSE FALSE)
    /\ IF f = "reset" /\ started # 0
       THEN /\ is_running' = FALSE
            /\ show_start_time' = 0
            /\ RunOver(r, how)
       ELSE /\ is_running' = running
            /\ show_start_time' = started
            /\ RunOver(r, "crashed")

\* play_intro / play_outro up to their first wait (change_scene's second when OBS
\* is already on the scene, else the asset's duration), entered with the stream in
\* state s: the run suspends, or a command raised and the finally block runs
PlayAsset(r, sleep, d, s, running, started) ==
  \/ /\ RunGoesOn(r, sleep, d)
     /\ stream_active' = s /\ is_running' = running /\ show_start_time' = started
  \/ Finally(r, "failed", s, running, started)

\* run_show called with the arguments a, from its first line to its first suspension
RunShowWith(r, a) ==
  /\ rpc[r] = "created"
  /\ LET eff == EffectiveList(is_running, a)
     IN IF ~eff.go
        THEN /\ RunOver(r, "refused")
             /\ UNCHANGED <<qvars, showvars, stream_active>>
        ELSE /\ now' = now + 1
             /\ SetQueue(initialize_video_queue(QueueState, eff.list))
             /\ \/ \* initiate_show_api, add_or_update_qr_codes or get_stream_status raises
                   Finally(r, "failed", stream_active, TRUE, now + 1)
                \/ \* start_stream() done
                   PlayAsset(r, "intro", a.max_duration, TRUE, TRUE, now + 1)
  /\ UNCHANGED <<obsvars, thvars, ads, qr, kid, mon, timer, creq, kreq, late, ctlvars>>

\* the run_show task starts: the arguments of its start command are read here first
RunShowBegin(r) == \E a \in StartArgs : RunShowWith(r, a)

\* the run wakes from change_scene's second and a command of play_intro or
\* play_outro raises: the finally block
AssetFails(r, phase) ==
  /\ rpc[r] = phase
  /\ Finally(r, "failed", stream_active, is_running, show_start_time)
  /\ UNCHANGED <<qvars, obsvars, thvars, now, ads, qr, kid, mon, timer, creq, kreq, late,
                 ctlvars>>

IntroFails(r) == AssetFails(r, "intro")
OutroFails(r) == AssetFails(r, "outro")

\* the intro is over: run_main_show creates the four tasks and awaits asyncio.wait
IntroDone(r) ==
  /\ rpc[r] = "intro"
  /\ launches < MaxLaunches
  /\ launches' = launches + 1
  /\ rpc' = [rpc EXCEPT ![r] = "main"]
  /\ ads' = [ads EXCEPT ![r] = "ready"]
  /\ qr' = [qr EXCEPT ![r] = "ready"]
  /\ play' = [play EXCEPT ![r] = "loop"]
  /\ mon' = [mon EXCEPT ![r] = "poll"]
  /\ timer' = [timer EXCEPT ![r] = 0]
  /\ UNCHANGED <<qvars, obsvars, thvars, showvars, stream_active, rarg, stopped, kid, creq, kreq,
                 late, pending, cmdsLeft>>

TaskPc(r, t) ==
  CASE t = "ads" -> ads[r] [] t = "qr" -> qr[r] [] t = "play" -> play[r] [] OTHER -> mon[r]

\* the tasks asyncio.wait reports as done / as pending
DoneTasks(r) == {t \in TaskNames : TaskPc(r, t) \in Terminal}
PendingTasks(r) == {t \in TaskNames : Live(TaskPc(r, t))}

\* gather(*pending_tasks, return_exceptions=True) not awaited
GatheredAtOnce(r) == TRUE
\* gather(*pending_tasks, return_exceptions=True) is done
Gathered(r) == \A t \in TaskNames : ~Live(TaskPc(r, t))

\* run_main_show returns: play_outro starts; the results of the ad, overlay and
\* monitor tasks are dropped
OutroBegins(r) ==
  /\ PlayAsset(r, "outro", 0, stream_active, is_running, show_start_time)
  /\ ads' = [ads EXCEPT ![r] = Collected(@)]
  /\ qr' = [qr EXCEPT ![r] = Collected(@)]
  /\ kid' = [kid EXCEPT ![r] = [i \in Overlays |-> Collected(kid[r][i])]]
  /\ mon' = [mon EXCEPT ![r] = Collected(@)]
  /\ timer' = [timer EXCEPT ![r] = 0]

\* asyncio.wait(FIRST_COMPLETED) returned: cancel every pending task (cancelling the
\* overlay task waiting in gather cancels its live sub-tasks), then await them all;
\* with nothing pending the gather does not suspend and play_outro starts at once
MainFirstCompleted(r) ==
  /\ rpc[r] = "main"
  /\ DoneTasks(r) # {}
  /\ IF PendingTasks(r) = {}
     THEN /\ OutroBegins(r)
          /\ UNCHANGED <<creq, kreq>>
     ELSE /\ creq' = [creq EXCEPT ![r] = PendingTasks(r)]
          /\ kreq' = [kreq EXCEPT ![r] =
                        IF "qr" \in PendingTasks(r) /\ qr[r] = "gather"
                        THEN {i \in Overlays : Live(kid[r][i])} ELSE {}]
          /\ rpc' = [rpc EXCEPT ![r] = "gather"]
          /\ UNCHANGED <<is_running, show_start_time, stream_active, rarg, stopped,
                         ads, qr, kid, play, mon, timer>>
  /\ UNCHANGED <<qvars, obsvars, thvars, now, late, ctlvars>>

\* the gather is done: run_main_show returns and play_outro starts
MainGathered(r) ==
  /\ rpc[r] = "gather"
  /\ Gathered(r)
  /\ OutroBegins(r)
  /\ UNCHANGED <<qvars, obsvars, thvars, now, creq, kreq, late, ctlvars>>

\* the outro is over: the finally block
OutroDone(r) ==
  /\ rpc[r] = "outro"
  /\ Finally(r, "ended", stream_active, is_running, show_start_time)
  /\ UNCHANGED <<qvars, obsvars, thvars, now, ads, qr, kid, mon, timer, creq, kreq, late,
                 ctlvars>>

(* ------------------------------ supervised tasks ------------------------ *)
\* a task steps on from an await unless its cancellation was requested: then
\* CancelledError is raised at the await (no handler of these tasks catches it)
Resumes(r, t) == t \notin creq[r]

\* the step issues broadcast commands: note when the run is not in its Running phase
Commands(r) == late' = [late EXCEPT ![r] = @ \/ rpc[r] # "main"]

\* rotate_ads from its start to its first sleep: get_ad_details may raise; an error
\* of the first ad update is caught
AdsFirst(r) ==
  /\ ads[r] = "ready" /\ Resumes(r, "ads")
  /\ \/ ads' = [ads EXCEPT ![r] = "raised"] /\ UNCHANGED late
     \/ ads' = [ads EXCEPT ![r] = "sleep"] /\ Commands(r)
  /\ UNCHANGED <<qvars, obsvars, thvars, showvars, stream_active, rpc, rarg, stopped,
                 qr, kid, play, mon, timer, creq, kreq, ctlvars>>

\* rotate_ads after a sleep: the alignment or the next ad update; an error is caught
\* and the loop goes on
AdsTick(r) ==
  /\ ads[r] = "sleep" /\ Resumes(r, "ads")
  /\ ads' = [ads EXCEPT ![r] = "sleep"]
  /\ Commands(r)
  /\ UNCHANGED <<qvars, obsvars, thvars, showvars, stream_active, rpc, rarg, stopped,
                 qr, kid, play, mon, timer, creq, kreq, ctlvars>>

\* rotate_qr_codes from its start to gather: n overlay items found; a command that
\* raises, or no item at all (max of an empty list), ends the task with an exception
QrFirst(r) ==
  /\ qr[r] = "ready" /\ Resumes(r, "qr")
  /\ Commands(r)
  /\ \/ qr' = [qr EXCEPT ![r] = "raised"] /\ UNCHANGED kid
     \/ \E n \in Overlays :
          /\ qr' = [qr EXCEPT ![r] = "gather"]
          /\ kid' = [kid EXCEPT ![r] = [i \in Overlays |-> IF i <= n THEN "tick" ELSE "absent"]]
  /\ UNCHANGED <<qvars, obsvars, thvars, showvars, stream_active, rpc, rarg, stopped,
                 ads, play, mon, timer, creq, kreq, ctlvars>>

\* rotate_qr_code: one tick, then sleep(0.05); an error ends this sub-task (caught,
\* printed)
KidTick(r, i) ==
  /\ kid[r][i] = "tick" /\ i \notin kreq[r]
  /\ Commands(r)
  /\ \/ kid' = [kid EXCEPT ![r][i] = "tick"]
     \/ kid' = [kid EXCEPT ![r][i] = "returned"]
  /\ UNCHANGED <<qvars, obsvars, thvars, showvars, stream_active, rpc, rarg, stopped,
                 ads, qr, play, mon, timer, creq, kreq, ctlvars>>

\* rotate_qr_codes returning without waiting for its sub-tasks
QrJoinedAtOnce(r) ==
  /\ qr[r] = "gather" /\ Resumes(r, "qr")
  /\ qr' = [qr EXCEPT ![r] = "returned"]
  /\ UNCHANGED <<qvars, obsvars, thvars, showvars, stream_active, rpc, rarg, stopped,
                 ads, kid, play, mon, timer, creq, kreq, late, ctlvars>>

\* gather(*tasks) of rotate_qr_codes is done: every sub-task returned
QrJoined(r) ==
  /\ qr[r] = "gather" /\ Resumes(r, "qr")
  /\ \A i \in Overlays : ~Live(kid[r][i])
  /\ qr' = [qr EXCEPT ![r] = "returned"]
  /\ UNCHANGED <<qvars, obsvars, thvars, showvars, stream_active, rpc, rarg, stopped,
                 ads, kid, play, mon, timer, creq, kreq, late, ctlvars>>

\* play_videos: one turn of its loop, from the queue_open test to the first wait
\* of the branch taken: "video" (change_scene's second or the video's duration),
\* "filler" (the same inside play_intro)
PlayLoop(r) ==
  /\ play[r] \in {"loop", "video", "filler"} /\ Resumes(r, "play")
  /\ IF ~queue_open
     THEN /\ play' = [play EXCEPT ![r] = "returned"]
          /\ UNCHANGED <<qvars, late>>
     ELSE LET took == IF is_empty(QueueState).ret = RetBool(FALSE)
                      THEN get_next_video(QueueState)
                      ELSE Result(QueueState, RetNone)
          IN /\ SetQueue(took.q)
             /\ Commands(r)
             /\ IF took.ret.kind = "item" /\ Truthy(took.ret.val)
                THEN \/ play' = [play EXCEPT ![r] = "video"]
                     \/ play' = [play EXCEPT ![r] = "broke"]     \* caught: break
                ELSE \/ play' = [play EXCEPT ![r] = "filler"]
                     \/ play' = [play EXCEPT ![r] = "raised"]    \* play_intro raises
  /\ UNCHANGED <<obsvars, thvars, showvars, stream_active, rpc, rarg, stopped,
                 ads, qr, kid, mon, timer, creq, kreq, ctlvars>>

\* play_videos wakes from change_scene's second and a command raises: caught (break)
\* while playing a video, not caught inside play_intro
PlayWakeFails(r) ==
  /\ play[r] \in {"video", "filler"} /\ Resumes(r, "play")
  /\ play' = [play EXCEPT ![r] = IF @ = "video" THEN "broke" ELSE "raised"]
  /\ Commands(r)
  /\ UNCHANGED <<qvars, obsvars, thvars, showvars, stream_active, rpc, rarg, stopped,
                 ads, qr, kid, mon, timer, creq, kreq, ctlvars>>

\* the poll that stops one tick after the cap
MonitorVerdictLate(t, max_duration, active) ==
  IF t > max_duration THEN "returned"
  ELSE IF ~active THEN "returned"
  ELSE "poll"
\* the poll that does not look at the stream's state
MonitorVerdictCapOnly(t, max_duration, active) ==
  IF t >= max_duration THEN "returned" ELSE "poll"
\* monitor_stream_status after "timer += 1": break at the cap, break when the
\* stream is not active, else sleep(1) and poll again
MonitorVerdict(t, max_duration, active) ==
  IF t >= max_duration THEN "returned"
  ELSE IF ~active THEN "returned"
  ELSE "poll"

\* monitor_stream_status: one poll
MonPoll(r) ==
  /\ mon[r] = "poll" /\ Resumes(r, "mon")
  /\ Commands(r)
  /\ \/ mon' = [mon EXCEPT ![r] = "raised"] /\ UNCHANGED timer   \* get_stream_status raises
     \/ /\ timer' = [timer EXCEPT ![r] = @ + 1]
        /\ mon' = [mon EXCEPT ![r] =
                     MonitorVerdict(timer[r] + 1, rarg[r], stream_active)]
  /\ UNCHANGED <<qvars, obsvars, thvars, showvars, stream_active, rpc, rarg, stopped,
                 ads, qr, kid, play, creq, kreq, ctlvars>>

\* the requested cancellations reach the tasks at their awaits: CancelledError ends
\* each of them, the overlay sub-tasks before the overlay task that waits for them
Cancelled(pc, hit) == IF hit /\ Live(pc) THEN "cancelled" ELSE pc
CancelDelivered(r) ==
  /\ creq[r] # {}
  /\ creq' = [creq EXCEPT ![r] = {}]
  /\ kreq' = [kreq EXCEPT ![r] = {}]
  /\ ads' = [ads EXCEPT ![r] = Cancelled(@, "ads" \in creq[r])]
  /\ qr' = [qr EXCEPT ![r] = Cancelled(@, "qr" \in creq[r])]
  /\ kid' = [kid EXCEPT ![r] = [i \in Overlays |-> Cancelled(kid[r][i], i \in kreq[r])]]
  /\ play' = [play EXCEPT ![r] = Cancelled(@, "play" \in creq[r])]
  /\ mon' = [mon EXCEPT ![r] = Cancelled(@, "mon" \in creq[r])]
  /\ UNCHANGED <<qvars, obsvars, thvars, showvars, stream_active, rpc, rarg, stopped,
                 timer, late, ctlvars>>

Supervisor(r) ==
  \/ RunShowBegin(r)
  \/ IntroFails(r)
  \/ IntroDone(r)
  \/ MainFirstCompleted(r)
  \/ MainGathered(r)
  \/ OutroFails(r)
  \/ OutroDone(r)

Activities(r) ==
  \/ AdsFirst(r)
  \/ AdsTick(r)
  \/ QrFirst(r)
  \/ \E i \in Overlays : KidTick(r, i)
  \/ QrJoined(r)
  \/ PlayLoop(r)
  \/ PlayWakeFails(r)
  \/ MonPoll(r)

Next ==
  \/ StartCommand
  \/ AddCommand
  \/ StopCommand
  \/ ControlTask
  \/ StreamLost
  \/ \E r \in Runs : Supervisor(r)
  \/ \E r \in Runs : Activities(r)
  \/ \E r \in Runs : CancelDelivered(r)

Spec == Init /\ [][Next]_vars

(***************************************************************************)
(* The supervisor's claims.                                                *)
(***************************************************************************)
RunOverKinds == {"refused", "ended", "failed", "crashed"}
EmptyListArgs == {a \in StartArgs : a.has_list /\ a.video_list = <<>>}

\* C1: a start command issued while a show is already running (is_running is set
\* and another run is between its intro and its outro) is rejected as a no-op: the
\* run_show task ends at once and leaves is_running, show_start_time, the queue and
\* the stream as they were (so no second run gets to launch tasks).
C1_StartWhileRunningIsNoOp ==
  [][\A r \in Runs :
       (is_running /\ (\E r2 \in Runs : rpc[r2] \in ActivePhases) /\ RunShowBegin(r))
         => /\ rpc'[r] = "refused"
            /\ UNCHANGED <<is_running, show_start_time, qvars, stream_active>>]_vars

\* C2: a start command with video_list = [] received while the Show is Idle is
\* refused: the Show stays Idle (is_running false, show_start_time unset), the
\* queue is not opened and the stream is not started.
C2_EmptyListIsRefused ==
  [][\A r \in Runs : \A a \in EmptyListArgs :
       (~is_running /\ RunShowWith(r, a))
         => /\ rpc'[r] = "refused"
            /\ ~is_running' /\ show_start_time' = 0
            /\ UNCHANGED <<queue_open, stream_active>>]_vars

\* C4: right after stop_show has run, queue_open is false and the queue holds no
\* items, whatever it held before.
C4_StopClosesAndClears ==
  [][(pending # <<>> /\ Head(pending).op = "stop" /\ ControlTask)
       => (queue_open' = FALSE /\ video_playlist' = <<>>)]_vars

\* C7: once one of the four supervised tasks has ended, the supervisor requests the
\* cancellation of every task still live (and with the overlay task that of its
\* live sub-tasks) and starts the outro only when all of them have ended; outside
\* the Running phase no task or sub-task of the run is live, and none issues a
\* broadcast command.
C7_CancelAllBeforeOutro ==
  \A r \in Runs :
    /\ rpc[r] \notin {"main", "gather"} =>
         /\ \A t \in TaskNames : ~Live(TaskPc(r, t))
         /\ \A i \in Overlays : ~Live(kid[r][i])
    /\ rpc[r] = "gather" =>
         /\ \A t \in TaskNames : Live(TaskPc(r, t)) => t \in creq[r]
         /\ \A i \in Overlays : Live(kid[r][i]) => i \in kreq[r]
    /\ ~late[r]

\* a run is in its outro after the playback task was cancelled and had ended
C7_Witness == \E r \in Runs : rpc[r] = "outro" /\ play[r] = "cancelled"

\* C8: with max_duration d >= 1 the monitor makes at most d polls and at most d-1
\* waits of one tick (it is live after timer polls only while timer < d), and at
\* its d-th poll it returns, which lets the supervisor end the Running phase even
\* though the other tasks are still going.
C8_MonitorBoundsRunning ==
  \A r \in Runs :
    (rpc[r] \in {"main", "gather"} /\ rarg[r] >= 1) =>
      /\ timer[r] <= rarg[r]
      /\ Live(mon[r]) => timer[r] < rarg[r]
      /\ (timer[r] = rarg[r] /\ rpc[r] = "main") =>
           (mon[r] = "returned" /\ ENABLED MainFirstCompleted(r))

\* the monitor returned at poll MaxDuration while the three other tasks go on
C8_Witness ==
  \E r \in Runs :
    /\ rpc[r] = "main" /\ rarg[r] = MaxDuration /\ timer[r] = MaxDuration
    /\ mon[r] = "returned"
    /\ ads[r] = "sleep" /\ qr[r] = "gather" /\ play[r] = "video"
    /\ \E i \in Overlays : kid[r][i] = "tick"

\* C9: a run whose playback task stopped at a command that raised while playing a
\* video ends with the Show back to Idle (is_running false, show_start_time unset).
C9_PlaybackFailureReachesIdle ==
  [][\A r \in Runs :
       (play[r] = "broke" /\ rpc[r] \notin RunOverKinds /\ rpc'[r] \in RunOverKinds)
         => (~is_running' /\ show_start_time' = 0)]_vars

\* a stop_show task runs in this step
StopRuns == pending # <<>> /\ Head(pending).op = "stop" /\ ControlTask

\* C11: stop_show cancels none of the supervised tasks itself (the step leaves every
\* task and every cancellation request as it was), and once it has run during a
\* run's intro or Running phase the playback task of that run starts no further
\* video: its next turn of the loop does not take a video from the queue.
C11_StopIsRequestNotKill ==
  [][/\ StopRuns => UNCHANGED <<ads, qr, kid, play, mon, timer, creq, kreq>>
     /\ \A r \in Runs :
          (stopped[r] /\ PlayLoop(r)) => play'[r] \notin {"video", "broke"}]_vars

\* the run_show task of run r, having left Idle, returns or raises in this step
RunEnds(r) ==
  /\ rpc[r] \in ActivePhases \cup {"created"}
  /\ rpc'[r] \in {"ended", "failed", "crashed"}

\* C12: when a run that left Idle is over, whatever its outcome, the stream has been
\* stopped and the Show is Idle again: is_running is false and show_start_time is
\* cleared.
C12_EveryRunReturnsToIdle ==
  [][\A r \in Runs :
       RunEnds(r) => (~stream_active' /\ ~is_running' /\ show_start_time' = 0)]_vars

\* the steps of run_show from one phase to the next: Idle ("absent", "created") to
\* Starting ("intro"), to Running ("main", "gather"), to Stopping ("outro"), to Idle
\* ("ended"); a refused start never leaves Idle
PhaseOrder ==
  {<<"absent", "created">>, <<"created", "refused">>, <<"created", "intro">>,
   <<"intro", "main">>, <<"main", "gather">>, <<"main", "outro">>,
   <<"gather", "outro">>, <<"outro", "ended">>}

\* C13: every run goes through Idle, Starting, Running, Stopping, Idle in this order,
\* no phase skipped or repeated: the intro wait begins with the queue open and the
\* stream started, the four tasks exist only from the end of the intro wait on, the
\* outro begins only when none of them is live, and the run stops the stream and
\* ends only from the end of its outro wait.
C13_PhasesInOrder ==
  [][\A r \in Runs :
       rpc'[r] # rpc[r] =>
         /\ <<rpc[r], rpc'[r]>> \in PhaseOrder
         /\ rpc'[r] = "intro" => (queue_open' /\ stream_active')
         /\ rpc'[r] = "main" => \A t \in TaskNames : TaskPc(r, t) = "absent"
         /\ rpc'[r] = "outro" => \A t \in TaskNames : ~Live(TaskPc(r, t))]_vars

\* C14: a broadcast command that fails inside a supervised task is caught where it
\* is called: the playback task (videos and intro filler), the monitor (status
\* query) and the overlay task (scene-item enumeration, ticks) never end with an
\* exception raised out of the task.
C14_CommandFailuresAreCaught ==
  \A r \in Runs : play[r] # "raised" /\ mon[r] # "raised" /\ qr[r] # "raised"

\* the add_new_video_in_show task of an accepted add-video command runs in this step
AddRuns(v) == pending # <<>> /\ Head(pending) = [op |-> "add", video |-> v] /\ ControlTask
\* a run is between the start of its intro and the end of its outro
RunActive == \E r \in Runs : rpc[r] \in ActivePhases

\* C15: an add-video command is accepted only while a run is active; its task, run
\* on an open queue with room, adds the video at fresh priority behind every fresh
\* entry already queued and ahead of every recirculated one; run on a closed queue
\* it leaves the queue as it was.
C15_AddVideoOnlyWhileRunning ==
  [][/\ AddCommand => RunActive
     /\ \A v \in Videos :
          AddRuns(v) =>
            IF queue_open /\ Len(video_playlist) < MaxSize
            THEN LET e == <<FRESH, counter, v>>
                 IN /\ Entries(video_playlist') = Entries(video_playlist) \cup {e}
                    /\ Len(video_playlist') = Len(video_playlist) + 1
                    /\ \A x \in Entries(video_playlist) :
                         IF x[1] = FRESH THEN TupleLess(x, e) ELSE TupleLess(e, x)
            ELSE UNCHANGED qvars]_vars

\* C16: a poll of the monitor that gets the stream's status and finds it inactive
\* makes the monitor return at that poll; a monitor that returned polls no more, and
\* while the run is in its Running phase the supervisor can then end that phase
\* (cancel the tasks still live).
C16_StreamLossEndsRunning ==
  [][\A r \in Runs :
       /\ (MonPoll(r) /\ ~stream_active /\ mon'[r] # "raised") => mon'[r] = "returned"
       /\ mon[r] = "returned" =>
            /\ ~ENABLED MonPoll(r)
            /\ rpc[r] = "main" => ENABLED MainFirstCompleted(r)]_vars

\* the monitor returned before its cap because the stream was lost, the three other
\* tasks still going
C16_Witness ==
  \E r \in Runs :
    /\ rpc[r] = "main" /\ mon[r] = "returned" /\ timer[r] < rarg[r] /\ ~stream_active
    /\ ads[r] = "sleep" /\ qr[r] = "gather" /\ play[r] \in {"video", "filler"}

\* C17: once stop_show has closed the queue during a run, the queue stays closed for
\* as long as that run has not returned to Idle: no step taken while the run goes on
\* (a start command's run_show in particular) opens it again.
C17_CloseIsTerminalForTheRun ==
  [][\A r \in Runs :
       (stopped[r] /\ ~queue_open /\ rpc'[r] \in ActivePhases) => ~queue_open']_vars

(***************************************************************************)
(* SpecPeek: get_next_video() called once by each of two threads while a   *)
(* third calls add_new_video("x"), on a queue seeded with up to MaxSize    *)
(* videos.  One step per access of the PriorityQueue (empty, get_nowait,   *)
(* put_nowait: each atomic under the PriorityQueue's own mutex) and per     *)
(* operation on self.lock.  The queue stays open.                           *)
(***************************************************************************)
Readers == {1, 2}
Writers == {3}

InitPeek ==
  /\ \E k \in 0..MaxSize :
       LET q == initialize_video_queue([heap |-> <<>>, counter |-> 0, open |-> FALSE],
                                       [i \in 1..k |-> X])
       IN /\ video_playlist = q.heap
          /\ counter = q.counter
          /\ queue_open = q.open
  /\ ThreadsUnused
  /\ ObserverUnused
  /\ SupervisorUnused

ReaderStep(c, pc, r, h) ==
  /\ tpc' = [tpc EXCEPT ![c] = pc]
  /\ tret' = [tret EXCEPT ![c] = r]
  /\ held' = [held EXCEPT ![c] = h]

\* require_queue_open around get_next_video and around peek
ThreadGetNextVideo(c) ==
  /\ tpc[c] = "idle"
  /\ IF queue_open
     THEN ReaderStep(c, "peek_empty", "none", <<>>)
     ELSE ReaderStep(c, "done", "None", <<>>)
  /\ UNCHANGED <<qvars, lock, obsvars, supvars>>

\* peek: its require_queue_open returns None on a closed queue, and get_next_video's
\* "priority, _ = self.peek()" raises TypeError; then "if not
\* self.video_playlist.empty()"; else (None, None), so that get_next_video returns
\* None
ThreadPeekEmpty(c) ==
  /\ tpc[c] = "peek_empty"
  /\ IF ~queue_open
     THEN ReaderStep(c, "done", "raised", <<>>)
     ELSE IF video_playlist # <<>>
     THEN ReaderStep(c, "peek_get", "none", <<>>)
     ELSE ReaderStep(c, "done", "None", <<>>)
  /\ UNCHANGED <<qvars, lock, obsvars, supvars>>

\* peek: get_nowait(); queue.Empty is not caught
ThreadPeekGet(c) ==
  /\ tpc[c] = "peek_get"
  /\ IF video_playlist # <<>>
     THEN LET pop == HeapPop(video_playlist)
          IN /\ video_playlist' = pop.heap
             /\ ReaderStep(c, "peek_put", "none", pop.entry)
     ELSE /\ ReaderStep(c, "done", "raised", <<>>)
          /\ UNCHANGED video_playlist
  /\ UNCHANGED <<counter, queue_open, lock, obsvars, supvars>>

\* peek: put_nowait((priority, counter, item)); queue.Full is not caught.  Then
\* get_next_video's "if priority is None or priority >= 3: return None"
ThreadPeekPut(c) ==
  /\ tpc[c] = "peek_put"
  /\ LET put == PutNowait(video_playlist, held[c])
     IN IF put.full
        THEN /\ ReaderStep(c, "done", "raised", <<>>)
             /\ UNCHANGED video_playlist
        ELSE /\ video_playlist' = put.heap
             /\ IF held[c][1] >= RECIRCULATED
                THEN ReaderStep(c, "done", "None", <<>>)
                ELSE ReaderStep(c, "dequeue_empty", "none", <<>>)
  /\ UNCHANGED <<counter, queue_open, lock, obsvars, supvars>>

\* dequeue: require_queue_open, then "if not self.video_playlist.empty()"
ThreadDequeueEmpty(c) ==
  /\ tpc[c] = "dequeue_empty"
  /\ IF queue_open /\ video_playlist # <<>>
     THEN ReaderStep(c, "dequeue_get", "none", <<>>)
     ELSE ReaderStep(c, "done", "None", <<>>)
  /\ UNCHANGED <<qvars, lock, obsvars, supvars>>

\* dequeue: get_nowait() (queue.Empty is caught: None); then get_next_video's
\* "if video_file:" and the wrappers of add_video_back_to_loop and enqueue
ThreadDequeueGet(c) ==
  /\ tpc[c] = "dequeue_get"
  /\ IF video_playlist # <<>>
     THEN LET pop == HeapPop(video_playlist)
          IN /\ video_playlist' = pop.heap
             /\ IF Truthy(pop.entry[3]) /\ queue_open
                THEN ReaderStep(c, "back_lock", "none", pop.entry)
                ELSE ReaderStep(c, "done", "item", <<>>)
     ELSE /\ ReaderStep(c, "done", "None", <<>>)
          /\ UNCHANGED video_playlist
  /\ UNCHANGED <<counter, queue_open, lock, obsvars, supvars>>

\* enqueue called by add_video_back_to_loop: with self.lock:
ThreadBackAcquire(c) ==
  /\ tpc[c] = "back_lock"
  /\ lock = 0
  /\ lock' = c
  /\ ReaderStep(c, "back_put", "none", held[c])
  /\ UNCHANGED <<qvars, obsvars, supvars>>

\* put_nowait((3, self.counter, video_file)); Full is caught, enqueue returns False
\* and get_next_video returns the video all the same
ThreadBackPut(c) ==
  /\ tpc[c] = "back_put"
  /\ LET put == PutNowait(video_playlist, <<RECIRCULATED, counter, held[c][3]>>)
     IN IF put.full
        THEN /\ lock' = 0
             /\ ReaderStep(c, "done", "item", <<>>)
             /\ UNCHANGED video_playlist
        ELSE /\ video_playlist' = put.heap
             /\ ReaderStep(c, "back_count", "none", <<>>)
             /\ UNCHANGED lock
  /\ UNCHANGED <<counter, queue_open, obsvars, supvars>>

\* self.counter += 1
ThreadBackCount(c) ==
  /\ tpc[c] = "back_count"
  /\ counter' = counter + 1
  /\ ReaderStep(c, "back_unlock", "none", <<>>)
  /\ UNCHANGED <<video_playlist, queue_open, lock, obsvars, supvars>>

\* the with block ends; get_next_video returns the video
ThreadBackRelease(c) ==
  /\ tpc[c] = "back_unlock"
  /\ lock' = 0
  /\ ReaderStep(c, "done", "item", <<>>)
  /\ UNCHANGED <<qvars, obsvars, supvars>>

NextPeek ==
  \/ \E c \in Readers : ThreadGetNextVideo(c)
  \/ \E c \in Readers : ThreadPeekEmpty(c)
  \/ \E c \in Readers : ThreadPeekGet(c)
  \/ \E c \in Readers : ThreadPeekPut(c)
  \/ \E c \in Readers : ThreadDequeueEmpty(c)
  \/ \E c \in Readers : ThreadDequeueGet(c)
  \/ \E c \in Readers : ThreadBackAcquire(c)
  \/ \E c \in Readers : ThreadBackPut(c)
  \/ \E c \in Readers : ThreadBackCount(c)
  \/ \E c \in Readers : ThreadBackRelease(c)
  \/ \E c \in Writers : ThreadCall(c)
  \/ \E c \in Writers : ThreadAddNewVideo(c)
  \/ \E c \in Writers : ThreadEnqueue(c)
  \/ \E c \in Writers : ThreadAcquire(c)
  \/ \E c \in Writers : ThreadPut(c)
  \/ \E c \in Writers : ThreadCount(c)
  \/ \E c \in Writers : ThreadRelease(c)

SpecPeek == InitPeek /\ [][NextPeek]_vars

\* the thread has taken an entry out of the queue and not yet put it back
Between(c) == tpc[c] \in {"peek_put", "back_lock", "back_put"}
\* the thread reads or changes the PriorityQueue in this step
Touches(c) ==
  /\ tpc[c] \in {"peek_empty", "peek_get", "peek_put", "dequeue_empty", "dequeue_get",
                 "back_put", "put_nowait"}
  /\ tpc'[c] # tpc[c]

\* C18: while a thread is between the removal and the re-insertion of an entry
\* inside peek or get_next_video, no other thread reads or changes the queue; so no
\* call fails on a head that is missing or a slot that was filled (none raises), and
\* every re-insertion puts the entry back.
C18_QueueOperationsExclusive ==
  [][\A c \in Callers :
       /\ Touches(c) => \A c2 \in Callers \ {c} : ~Between(c2)
       /\ tret'[c] # "raised"
       /\ (tpc[c] \in {"peek_put", "back_put"} /\ tpc'[c] # tpc[c])
            => Len(video_playlist') = Len(video_playlist) + 1]_vars

(***************************************************************************)
(* Further claims about the queue API (SpecQueue).                         *)
(***************************************************************************)
\* C19: peek on an open queue returns the priority and the item of the entry with
\* the smallest (priority, sequence) key, or (None, None) when the queue is empty,
\* and leaves the set of entries (item, priority, sequence number), their number,
\* the sequence counter and the open flag as they were.
C19_PeekIsNonDestructive ==
  [][(queue_open /\ lastOp'.name = "peek") =>
        /\ ret' = IF video_playlist = <<>>
                  THEN RetPairNone
                  ELSE LET m == MinKey(Entries(video_playlist)) IN RetPair(m[1], m[3])
        /\ Entries(video_playlist') = Entries(video_playlist)
        /\ Len(video_playlist') = Len(video_playlist)
        /\ counter' = counter
        /\ queue_open']_vars

\* C19 witness: peek returned a fresh item of a full queue in which a recirculated
\* entry has the smallest sequence number
C19_Witness ==
  /\ queue_open
  /\ lastOp.name = "peek"
  /\ ret.kind = "pair" /\ ret.prio = FRESH
  /\ Len(video_playlist) = MaxSize
  /\ \E e \in Entries(video_playlist) : e[1] = RECIRCULATED /\ e[2] = 0

C21_TakenItemIsRecirculated ==
  [][\A c \in Readers :
       (tpc[c] = "back_put" /\ tpc'[c] # "back_put" /\ queue_open) =>
          /\ <<RECIRCULATED, counter, held[c][3]>> \in Entries(video_playlist')
          /\ \A e \in Entries(video_playlist) : e[2] # counter]_vars

\* C22: over every interleaving of add_new_video calls the queued entries carry
\* pairwise distinct sequence numbers; whenever no thread is inside enqueue's locked
\* block every sequence number is smaller than the counter; an entry is inserted
\* under a sequence number larger than that of every entry inserted before; and a
\* call that fails on a full queue leaves the counter as it was.
C22_SequenceAssignedWithInsertion ==
  /\ [](/\ \A i, j \in 1..Len(video_playlist) :
             i # j => video_playlist[i][2] # video_playlist[j][2]
        /\ lock = 0 => \A e \in Entries(video_playlist) : e[2] < counter)
  /\ [][\A c \in Callers :
          tpc[c] = "put_nowait" =>
            /\ Len(video_playlist') > Len(video_playlist) =>
                 /\ <<FRESH, counter, X>> \in Entries(video_playlist')
                 /\ \A e \in Entries(video_playlist) : e[2] < counter
            /\ tret'[c] = "False" => counter' = counter]_vars

\* C22 witness: one thread has inserted its entry and not yet advanced the counter
\* while another waits for the lock, the queue already holding an earlier entry
C22_Witness ==
  /\ \E c \in Callers : tpc[c] = "counter" /\ lock = c
  /\ \E c \in Callers : tpc[c] = "lock"
  /\ Len(video_playlist) >= 2

(***************************************************************************)
(* SpecDrivers: the ad-rotation task and the overlay-rotation task of one  *)
(* Running phase, one step per run between two awaits, until the           *)
(* supervisor cancels them.  A command to OBS returns or raises.           *)
(***************************************************************************)
\* "index += 1" without the wrap
AdvanceNoWrap(i, n) == i + 1
\* "index += 1; if index == len(ad_details): index = 0"
Advance(i, n) == IF i + 1 = n THEN 0 ELSE i + 1

\* rotate_ads without its try: the error leaves the task
rotate_ads_no_except(i, n) == [pc |-> "raised", index |-> i]
\* rotate_ads's "except Exception": log, then advance and sleep(interval)
rotate_ads_except(i, n) == [pc |-> "sleep", index |-> Advance(i, n)]

AdsStep(pc, i, ok) ==
  /\ ad_pc' = pc
  /\ index' = i
  /\ ad_ok' = ok

\* rotate_ads starts: get_ad_details() returns n advertisements or raises
AdsFetch ==
  /\ ad_pc = "ready"
  /\ \/ \E n \in 0..MaxAds : ad_details' = n /\ AdsStep("tick", 0, ad_ok)
     \/ ad_details' = ad_details /\ AdsStep("raised", index, ad_ok)
  /\ UNCHANGED <<qvars, lastOp, ret, streak, qrvars, pbvars, thvars, supvars>>

\* a tick up to sleep(0.05): ad_details[index] (IndexError when there is none) and
\* set_input_settings; an error is caught
AdsTickBegin ==
  /\ ad_pc = "tick"
  /\ \/ /\ index < ad_details
        /\ AdsStep("align", index, ad_ok)
     \/ LET e == rotate_ads_except(index, ad_details)
        IN AdsStep(e.pc, e.index, "failed")
  /\ UNCHANGED <<ad_details, qvars, lastOp, ret, streak, qrvars, pbvars, thvars, supvars>>

\* the tick after sleep(0.05): center_align_vertically; an error is caught; then
\* advance and sleep(interval)
AdsAlign ==
  /\ ad_pc = "align"
  /\ \/ AdsStep("sleep", Advance(index, ad_details), "ok")
     \/ LET e == rotate_ads_except(index, ad_details)
        IN AdsStep(e.pc, e.index, "failed")
  /\ UNCHANGED <<ad_details, qvars, lastOp, ret, streak, qrvars, pbvars, thvars, supvars>>

\* sleep(interval) is over: the next turn of "while True"
AdsWake ==
  /\ ad_pc = "sleep"
  /\ index < MaxIndex
  /\ AdsStep("tick", index, ad_ok)
  /\ UNCHANGED <<ad_details, qvars, lastOp, ret, streak, qrvars, pbvars, thvars, supvars>>

\* rotate_qr_code without its try: the error leaves the sub-task, and gather(*tasks)
\* hands it to rotate_qr_codes at once
rotate_qr_code_no_except(parent) == [item |-> "raised", parent |-> "raised"]
\* rotate_qr_code's "except Exception": print, and the sub-task returns
rotate_qr_code_except(parent) == [item |-> "returned", parent |-> parent]

\* rotate_qr_codes from its start to gather(*tasks): the items of the scene are
\* enumerated (a command may raise; max() of no item raises), then one sub-task per
\* item is created
QrEnumerate ==
  /\ qr_pc = "ready"
  /\ \/ /\ qr_pc' = "raised"
        /\ UNCHANGED <<item_pc, pos_x, max_item_pos, max_item_width>>
     \/ \E n \in 1..NumItems, initial_pos \in [Items -> (-MaxLeft)..MaxPos], w \in 1..MaxWidth :
          /\ qr_pc' = "gather"
          /\ item_pc' = [i \in Items |-> IF i <= n THEN "ready" ELSE "absent"]
          /\ pos_x' = [i \in Items |-> IF i <= n THEN initial_pos[i] ELSE 0]
          /\ max_item_pos' = initial_pos[n]
          /\ max_item_width' = w
  /\ UNCHANGED <<item_ok, qvars, lastOp, ret, streak, adsvars, pbvars, thvars, supvars>>

\* the wrap that lets the bound itself pass ("pos_x > int(max_item_pos)")
WrapPosXPastBound(x, bound, width) == IF x > bound THEN -width ELSE x
\* "if pos_x >= int(max_item_pos): pos_x = -int(max_item_width)"
WrapPosX(x, bound, width) == IF x >= bound THEN -width ELSE x

\* rotate_qr_code: one turn of "while True" up to sleep(0.05): "pos_x += 1", the
\* command, the wrap to -max_item_width
ItemTick(i) ==
  /\ item_pc[i] \in {"ready", "tick"}
  /\ \/ /\ item_pc' = [item_pc EXCEPT ![i] = "tick"]
        /\ pos_x' = [pos_x EXCEPT ![i] = WrapPosX(@ + 1, max_item_pos, max_item_width)]
        /\ item_ok' = [item_ok EXCEPT ![i] = "ok"]
        /\ UNCHANGED qr_pc
     \/ LET e == rotate_qr_code_except(qr_pc)
        IN /\ item_pc' = [item_pc EXCEPT ![i] = e.item]
           /\ qr_pc' = e.parent
           /\ pos_x' = [pos_x EXCEPT ![i] = @ + 1]
           /\ item_ok' = [item_ok EXCEPT ![i] = "failed"]
  /\ UNCHANGED <<max_item_pos, max_item_width, qvars, lastOp, ret, streak, adsvars, pbvars,
                 thvars, supvars>>

\* gather(*tasks) is done: every sub-task returned
QrGathered ==
  /\ qr_pc = "gather"
  /\ \A i \in Items : ~Live(item_pc[i])
  /\ qr_pc' = "returned"
  /\ UNCHANGED <<item_pc, pos_x, item_ok, max_item_pos, max_item_width, qvars, lastOp, ret,
                 streak, adsvars, pbvars, thvars, supvars>>

\* run_main_show creates the two tasks
DriversLaunched ==
  /\ ad_pc = "absent" /\ qr_pc = "absent"
  /\ ad_pc' = "ready" /\ qr_pc' = "ready"
  /\ UNCHANGED <<ad_details, index, ad_ok, item_pc, pos_x, item_ok, max_item_pos,
                 max_item_width, qvars, lastOp, ret, streak, pbvars, thvars, supvars>>

\* run_main_show cancels the tasks still pending, each suspended at an await:
\* CancelledError ends them, the overlay items with the task that gathers them
DriversCancelled ==
  /\ Live(ad_pc) \/ Live(qr_pc)
  /\ ad_pc # "tick"
  /\ ad_pc' = Cancelled(ad_pc, TRUE)
  /\ qr_pc' = Cancelled(qr_pc, TRUE)
  /\ item_pc' = [i \in Items |-> Cancelled(item_pc[i], Live(qr_pc))]
  /\ UNCHANGED <<ad_details, index, ad_ok, pos_x, item_ok, max_item_pos, max_item_width,
                 qvars, lastOp, ret, streak, pbvars, thvars, supvars>>

InitDrivers ==
  /\ video_playlist = <<>>
  /\ counter = 0
  /\ queue_open = FALSE
  /\ ObserverUnused
  /\ ThreadsUnused
  /\ SupervisorUnused

NextDrivers ==
  \/ DriversLaunched
  \/ AdsFetch
  \/ AdsTickBegin
  \/ AdsAlign
  \/ AdsWake
  \/ QrEnumerate
  \/ \E i \in Items : ItemTick(i)
  \/ QrGathered
  \/ DriversCancelled

SpecDrivers == InitDrivers /\ [][NextDrivers]_vars

\* a tick of rotate_ads fails in this step
AdTickFails ==
  /\ ad_pc \in {"tick", "align"}
  /\ ad_pc' \notin {ad_pc, "align", "cancelled"}
  /\ ad_ok' = "failed"

\* C23: a command that fails during a tick of rotate_ads does not end the task: the
\* task advances its index to the next advertisement (circularly) and sleeps the
\* interval, from which it starts the next tick; once get_ad_details has returned,
\* the task ends only by being cancelled.
C23_AdTickFailureIsSkipped ==
  /\ [][AdTickFails => (ad_pc' = "sleep" /\ index' = Advance(index, ad_details))]_vars
  /\ [](/\ ad_details >= 0 => ad_pc \notin {"raised", "returned", "broke"}
        /\ (ad_pc = "sleep" /\ index < MaxIndex) => ENABLED AdsWake)

\* C23 witness: after a failed tick on the first of two advertisements the tick on
\* the second is under way
C23_Witness ==
  /\ ad_details = 2 /\ index = 1
  /\ ad_ok = "failed"
  /\ ad_pc = "align"

\* the tick of overlay item i fails in this step
ItemTickFails(i) ==
  /\ item_pc[i] \in {"ready", "tick"}
  /\ item_pc'[i] # "cancelled"
  /\ pos_x'[i] # pos_x[i]
  /\ item_ok'[i] = "failed"

\* C24: a command that fails in one tick of an overlay item's animation costs that
\* one tick: the item's loop goes on (it sleeps and ticks again), as rotate_ads does
\* after a failed tick.
C24_OverlayTickFailureIsSkipped ==
  [][\A i \in Items : ItemTickFails(i) => item_pc'[i] = "tick"]_vars

\* C25: the failure of one overlay item's tick is caught in that item's task: it
\* leaves the other items' tasks and positions and the task that gathers them as
\* they were; as long as an item is live the gathering task waits, and a live item
\* can always make its next tick, whatever became of the others.
C25_OverlayFailureIsPerItem ==
  /\ [][\A i \in Items :
          ItemTickFails(i) =>
            /\ \A j \in Items \ {i} : item_pc'[j] = item_pc[j] /\ pos_x'[j] = pos_x[j]
            /\ qr_pc' = qr_pc
            /\ item_pc'[i] \in {"returned", "tick"}]_vars
  /\ [](\A j \in Items :
          Live(item_pc[j]) => (qr_pc = "gather" /\ ENABLED ItemTick(j)))

\* C25 witness: the first item's tick has failed; the second item went on and has
\* wrapped to the left of the scene
C25_Witness ==
  /\ qr_pc = "gather"
  /\ item_ok[1] = "failed" /\ item_pc[1] = "returned"
  /\ item_ok[2] = "ok" /\ item_pc[2] = "tick" /\ pos_x[2] = -max_item_width

(***************************************************************************)
(* SpecPlayback: the play_videos task of one Running phase with a clock of *)
(* seconds, the control surface adding videos and stopping the show, until *)
(* the supervisor cancels the task.  One step per run of the task between  *)
(* two awaits; Tick lets a second pass.  Meanwhile OBS's stream may be     *)
(* lost, and started again through OBSController.start_stream.             *)
(***************************************************************************)
VideoLens == 1..MaxVideoLen

\* an asyncio.sleep that was not awaited: the task goes on at once
SleepOverAtOnce(left) == TRUE
\* "await asyncio.sleep(d)" returns when d seconds have passed
SleepOver(left) == left = 0

\* the scene a turn of play_videos switches to
TargetScene(video) == IF video # 0 THEN "Layout1" ELSE "IntroScene"
\* how a turn ends when a command raises: "break" in the video branch (caught),
\* the exception of play_intro in the filler branch
PbFailed(video) == IF video # 0 THEN "broke" ELSE "raised"

PbStep(pc, video, left, sc, mv) ==
  /\ pb_pc' = pc
  /\ pb_video' = video
  /\ wait_left' = left
  /\ scene' = sc
  /\ main_video' = mv

\* from set_current_program_scene(target) to the sleep of the video's or the intro's
\* duration: the restart commands of MainVideo in the video branch; a command may
\* raise before or after the scene was set
PbPlay(video) ==
  \/ PbStep(PbFailed(video), video, 0, scene, main_video)
  \/ PbStep(PbFailed(video), video, 0, TargetScene(video), main_video)
  \/ \E d \in VideoLens :
       PbStep("wait", video, d, TargetScene(video), IF video # 0 THEN video ELSE main_video)

\* change_scene: OBS already on the target scene means EmptyScene and sleep(1) first
PbChangeScene(video) ==
  IF scene = TargetScene(video)
  THEN \/ PbStep(PbFailed(video), video, 0, scene, main_video)
       \/ PbStep("scene_wait", video, 1, "EmptyScene", main_video)
  ELSE PbPlay(video)

\* play_videos: one turn of "while video_queue.queue_open" from its test to the
\* first await of the branch taken
PbTurn ==
  /\ pb_pc = "start" \/ (pb_pc = "wait" /\ SleepOver(wait_left))
  /\ IF ~queue_open
     THEN /\ PbStep("returned", pb_video, 0, scene, main_video)
          /\ UNCHANGED qvars
     ELSE LET took == IF is_empty(QueueState).ret = RetBool(FALSE)
                      THEN get_next_video(QueueState)
                      ELSE Result(QueueState, RetNone)
              video == IF took.ret.kind = "item" /\ Truthy(took.ret.val)
                       THEN took.ret.val ELSE 0
          IN /\ SetQueue(took.q)
             /\ PbChangeScene(video)
  /\ UNCHANGED <<lastOp, ret, streak, adsvars, qrvars, thvars, supvars>>

\* change_scene's second is over
PbSceneDone ==
  /\ pb_pc = "scene_wait" /\ SleepOver(wait_left)
  /\ PbPlay(pb_video)
  /\ UNCHANGED <<qvars, lastOp, ret, streak, adsvars, qrvars, thvars, supvars>>

\* a second passes
Tick ==
  /\ pb_pc \in {"scene_wait", "wait"}
  /\ wait_left > 0
  /\ wait_left' = wait_left - 1
  /\ UNCHANGED <<pb_pc, pb_video, scene, main_video, qvars, lastOp, ret, streak, adsvars,
                 qrvars, thvars, supvars>>

\* an add_new_video_in_show task runs
PbAdd ==
  \E v \in NamedVideos :
    /\ counter < MaxCounter
    /\ SetQueue(add_new_video_in_show(QueueState, v))
    /\ UNCHANGED <<obsvars, thvars, supvars>>

\* a stop_show task runs
PbStop ==
  /\ queue_open
  /\ SetQueue(stop_show(QueueState))
  /\ UNCHANGED <<obsvars, thvars, supvars>>

\* run_main_show cancels the task, suspended at an await or not yet started
PbCancelled ==
  /\ pb_pc \in {"start", "scene_wait", "wait"}
  /\ PbStep("cancelled", pb_video, wait_left, scene, main_video)
  /\ UNCHANGED <<qvars, lastOp, ret, streak, adsvars, qrvars, thvars, supvars>>

\* OBSController.start_stream: the commands sent to OBS and the stream's state
\* after them, is_streaming being what get_stream_status reported
start_stream(is_streaming, force_start) ==
  LET stop == is_streaming /\ force_start
      start == ~is_streaming
  IN [stop |-> stop, start |-> start,
      active |-> IF start THEN TRUE ELSE IF stop THEN FALSE ELSE is_streaming]

StartStream(force_start) ==
  /\ stream_active' = start_stream(stream_active, force_start).active
  /\ UNCHANGED <<qvars, obsvars, thvars, showvars, rpc, rarg, stopped, taskvars, ctlvars>>

InitPlayback ==
  /\ \E k \in 0..MaxSize :
       LET q == initialize_video_queue([heap |-> <<>>, counter |-> 0, open |-> FALSE],
                                       [i \in 1..k |-> X])
       IN /\ video_playlist = q.heap
          /\ counter = q.counter
          /\ queue_open = q.open
  /\ lastOp = [name |-> "init", item |-> 0, priority |-> 0]
  /\ ret = RetNone
  /\ streak = <<0, 0>>
  /\ ad_pc = "absent" /\ ad_details = -1 /\ index = 0 /\ ad_ok = "none"
  /\ qr_pc = "absent"
  /\ item_pc = [i \in Items |-> "absent"]
  /\ pos_x = [i \in Items |-> 0]
  /\ item_ok = [i \in Items |-> "none"]
  /\ max_item_pos = 0 /\ max_item_width = 0
  /\ pb_pc = "start"
  /\ pb_video = 0
  /\ wait_left = 0
  /\ scene = "IntroScene"
  /\ main_video = 0
  /\ ThreadsUnused
  /\ SupervisorUnused

NextPlayback ==
  \/ PbTurn
  \/ PbSceneDone
  \/ Tick
  \/ PbAdd
  \/ PbStop
  \/ PbCancelled
  \/ \E force_start \in BOOLEAN : StartStream(force_start)
  \/ StreamLost

SpecPlayback == InitPlayback /\ [][NextPlayback]_vars

\* C26: play_videos is strictly sequential: a turn of its loop (and with it the next
\* take from the queue) starts only when the sleep of the turn before is over; a
\* turn that took a video waits with the main-content scene on air and MainVideo
\* restarted with that video; a turn that got no video waits with the intro scene
\* on air.
C26_PlaybackIsSequential ==
  /\ [][/\ PbTurn => (pb_pc = "wait" => wait_left = 0)
        /\ PbSceneDone => wait_left = 0]_vars
  /\ [](pb_pc = "wait" =>
          IF pb_video # 0
          THEN scene = "Layout1" /\ main_video = pb_video
          ELSE scene = "IntroScene")

\* C26 witness: the task is in the middle of the wait of its second video
C26_Witness ==
  /\ pb_pc = "wait" /\ pb_video # 0
  /\ 0 < wait_left /\ wait_left < MaxVideoLen
  /\ Cardinality({e \in Entries(video_playlist) : e[1] = RECIRCULATED}) = 2

(***************************************************************************)
(* Further claims about the supervisor (Spec).                             *)
(***************************************************************************)
\* C27: a step of add_new_video_in_show or of stop_show leaves the Show record as it
\* was: is_running and show_start_time keep their values.
C27_ControlLeavesShowRecord ==
  [][(pending # <<>> /\ ControlTask) => UNCHANGED <<is_running, show_start_time>>]_vars

\* C27 witness: stop_show has run during a run, and the Show record still says
\* running
C27_Witness ==
  /\ \E r \in Runs : stopped[r] /\ rpc[r] = "main"
  /\ ~queue_open
  /\ is_running /\ show_start_time # 0

\* C30: whenever a supervised task (ads, overlays with their sub-tasks, playback,
\* monitor) of some run is live, the Show is not Idle: is_running is true and
\* show_start_time is set.
C30_LiveTaskMeansShowRunning ==
  \A r \in Runs :
    ((\E t \in TaskNames : Live(TaskPc(r, t))) \/ (\E i \in Overlays : Live(kid[r][i])))
      => (is_running /\ show_start_time # 0)

\* C29: after start_stream the stream is active, whatever it was before and
\* whatever force_start is: an inactive stream is started, an active one is stopped
\* and started again with force_start and left untouched (no command) without.
C29_StartStreamLeavesStreamActive ==
  [][\A force_start \in BOOLEAN :
       StartStream(force_start) =>
         LET sent == start_stream(stream_active, force_start)
         IN /\ stream_active'
            /\ sent.start = (~stream_active \/ force_start)
            /\ sent.stop = (stream_active /\ force_start)]_vars


(***************************************************************************)
(* SpecCancel: the supervisor and its activities when the task that runs   *)
(* run_show is cancelled from outside (task.cancel() by the holder of the  *)
(* task).  No add or stop command is sent.  CancelledError is raised at    *)
(* the await the task is suspended at.  It is a BaseException: the         *)
(* "except Exception" of run_main_show does not run, and asyncio.wait      *)
(* leaves the tasks it waits for alone; gather cancels its children, which *)
(* run_main_show has cancelled already.  run_show's "except                *)
(* asyncio.CancelledError: raise" and its finally block follow.            *)
(***************************************************************************)
RunShowCancelled(r) ==
  /\ rpc[r] \in ActivePhases
  /\ \E f \in {"reset", "raise_before_stop", "raise_after_stop"} :
       /\ stream_active' = (IF f = "raise_before_stop" THEN stream_active ELSE FALSE)
       /\ IF f = "reset" /\ show_start_time # 0
          THEN /\ is_running' = FALSE
               /\ show_start_time' = 0
               /\ rpc' = [rpc EXCEPT ![r] = "cancelled"]
          ELSE /\ UNCHANGED <<is_running, show_start_time>>
               /\ rpc' = [rpc EXCEPT ![r] = "crashed"]
  /\ stopped' = [stopped EXCEPT ![r] = FALSE]
  /\ UNCHANGED <<qvars, obsvars, thvars, now, rarg, taskvars, ctlvars>>

NextCancel ==
  \/ StartCommand
  \/ StreamLost
  \/ \E r \in Runs : Supervisor(r)
  \/ \E r \in Runs : Activities(r)
  \/ \E r \in Runs : CancelDelivered(r)
  \/ \E r \in Runs : RunShowCancelled(r)

SpecCancel == Init /\ [][NextCancel]_vars

\* C28: once a cancelled run_show has reset the Show, every activity of that run
\* (and every overlay sub-task) that is still live has its cancellation requested,
\* and no activity of the run issues a broadcast command any more.
C28_CancelledRunCancelsActivities ==
  /\ [](\A r \in Runs : rpc[r] = "cancelled" =>
          /\ \A t \in TaskNames : Live(TaskPc(r, t)) => t \in creq[r]
          /\ \A i \in Overlays : Live(kid[r][i]) => i \in kreq[r])
  /\ [][\A r \in Runs : rpc[r] = "cancelled" => late'[r] = late[r]]_vars


(***************************************************************************)
(* Claims about what a run leaves behind and about the size of the queue.  *)
(***************************************************************************)
\* the videos of the queue's items
QueuedVideos(heap) == {e[3] : e \in Entries(heap)}
Range(list) == {list[i] : i \in 1..Len(list)}

\* C31: when a run that left Idle is over and the Show is Idle again, the queue
\* holds no item; and right after a run started from Idle has seeded the queue,
\* the queue holds that run's initial videos and nothing else.
C31_NoVideoOutlivesItsRun ==
  [][/\ \A r \in Runs : (RunEnds(r) /\ ~is_running') => video_playlist' = <<>>
     /\ \A r \in Runs : \A a \in StartArgs :
          (~is_running /\ a.has_list /\ RunShowWith(r, a))
            => /\ Len(video_playlist') = Len(a.video_list)
               /\ QueuedVideos(video_playlist') = Range(a.video_list)]_vars

\* C32: a get_next_video call on an open queue never leaves fewer items queued
\* than it found (the item it takes is put back), and add_new_video on an open
\* queue that holds capacity-many items fails and adds nothing.
C32_PlaybackKeepsQueueSize ==
  [][/\ (queue_open /\ lastOp'.name = "get_next_video")
          => Len(video_playlist') >= Len(video_playlist)
     /\ (queue_open /\ Len(video_playlist) = MaxSize /\ lastOp'.name = "add_new_video")
          => (ret' = RetBool(FALSE) /\ video_playlist' = video_playlist)]_vars


(***************************************************************************)
(* SpecStop: SpecPeek's threads with one more caller running stop_show     *)
(* while they are inside get_next_video and add_new_video.                 *)
(***************************************************************************)
\* stop_show: "queue_open = False"; its clear_all() is skipped on the closed queue
ThreadStopShow ==
  /\ queue_open
  /\ SetQueue(stop_show(QueueState))
  /\ UNCHANGED <<thvars, obsvars, supvars>>

NextStop ==
  \/ NextPeek
  \/ ThreadStopShow

SpecStop == InitPeek /\ [][NextStop]_vars

\* C33: a get_next_video call that finds the queue closed at one of its steps
\* (after its own open-check let it in) ends by returning None or the item it has
\* taken: it does not raise.
C33_TakeNextNeverRaisesOnClose ==
  [][\A c \in Readers :
       (~queue_open /\ tpc[c] \notin {"idle", "done"} /\ tpc'[c] = "done")
         => tret'[c] \in {"None", "item"}]_vars


AdTickEnds == ad_pc \in {"tick", "align"} /\ ad_pc' = "sleep"

\* C35: rotate_ads starts at index 0 and every tick, failed or not, moves the index
\* on by one modulo the number n of fetched ads, so with n >= 1 the index stays in
\* 0..n-1; with no ad the index only grows and is never a position of the list, no
\* tick gets as far as an ad update, and the task neither returns nor raises: its
\* next tick is always there.
C35_AdIndexIsCircular ==
  /\ [][/\ (ad_pc = "ready" /\ ad_pc' = "tick") => index' = 0
        /\ (ad_pc = "sleep" /\ ad_pc' = "tick") => index' = index
        /\ AdTickEnds =>
             index' = (IF ad_details >= 1 THEN (index + 1) % ad_details ELSE index + 1)]_vars
  /\ [](/\ ad_details >= 1 => index \in 0..(ad_details - 1)
        /\ ad_details = 0 =>
             /\ index >= ad_details
             /\ ad_pc \notin {"align", "returned", "raised", "broke"}
             /\ ad_ok # "ok"
             /\ (ad_pc = "sleep" /\ index < MaxIndex) => ENABLED AdsWake
             /\ ad_pc = "tick" => ENABLED AdsTickBegin)

\* C35 witness: with two ads the index is back at 0 after the tick on the second
\* ad, which failed
C35_Witness ==
  /\ ad_details = 2 /\ index = 0
  /\ ad_pc = "sleep" /\ ad_ok = "failed"

\* the position the next tick of item i commands ("pos_x += 1", then the command)
CommandedPosX(i) == pos_x[i] + 1
\* the reset position of the animation
ResetPosX == -max_item_width
\* item i makes a tick in this step and goes on
ItemTicksOn(i) == ItemTick(i) /\ item_pc'[i] = "tick"
\* the tick in which item i commands x is the item's wrap, or comes after it
AfterWrap(x) == x >= max_item_pos \/ (ResetPosX + 1 <= x /\ x <= max_item_pos)

UpperPosX == IF max_item_pos >= ResetPosX + 1 THEN max_item_pos ELSE ResetPosX + 1

=============================================================================
